---------------------------- MODULE Spec2Model ----------------------------
(***************************************************************************)
(* Flight-dynamics engine of CUBE3D (src/flight_dynamics.{h,cpp}).         *)
(*                                                                         *)
(* The engine computes on C++ floats.  The model computes on fixed-point   *)
(* numbers: a real r is the integer r * Scale (Scale = 1000, so lengths    *)
(* are millimetres, angles milliradians, forces millinewtons).  Products   *)
(* and quotients round to the nearest representable value, symmetric in    *)
(* the sign, as IEEE arithmetic does; sqrt, sin and cos are computed by    *)
(* integer algorithms that are exact where the float functions are exact   *)
(* (perfect squares, multiples of a quarter turn).                         *)
(***************************************************************************)
EXTENDS Integers, Sequences, FiniteSets, TLC

\* ------------------------------------------------------------------------
\* Fixed-point reals
\* ------------------------------------------------------------------------

\* Resolution of the model's reals: one unit is 1/Scale.
Scale == 1000

Abs(a) == IF a < 0 THEN -a ELSE a

Sgn(a) == IF a < 0 THEN -1 ELSE 1

\* (a * b + add) \div c for a, b >= 0 and 0 < c <= 46340, without leaving
\* the 32-bit integers as long as the result fits.
MulDivAbs(a, b, c, add) ==
    LET qa == a \div c
        ra == a % c
        qb == b \div c
        rb == b % c
    IN  qa * qb * c + qa * rb + ra * qb + (ra * rb + add) \div c

\* float * float
fmul(a, b) == Sgn(a) * Sgn(b) * MulDivAbs(Abs(a), Abs(b), Scale, Scale \div 2)

\* float * the literal num/den (num >= 0, den > 0), e.g. 0.0008f is 8/10000
frat(a, num, den) == Sgn(a) * MulDivAbs(Abs(a), num, den, den \div 2)

\* round(r * k / b) for 0 <= r < b and k a power of ten, by long division
RECURSIVE LongDiv(_, _, _)
LongDiv(r, b, k) ==
    IF k = 1
    THEN IF 2 * r >= b THEN 1 ELSE 0
    ELSE LET r10 == r * 10
         IN  (r10 \div b) * (k \div 10) + LongDiv(r10 % b, b, k \div 10)

\* float / float, b # 0
fdiv(a, b) ==
    LET aa == Abs(a)
        bb == Abs(b)
    IN  Sgn(a) * Sgn(b) * ((aa \div bb) * Scale + LongDiv(aa % bb, bb, Scale))

\* the largest y in lo..hi-1 with y * y <= x * Scale, given lo * lo <= x * Scale
RECURSIVE SqrtSearch(_, _, _)
SqrtSearch(x, lo, hi) ==
    IF hi - lo <= 1
    THEN lo
    ELSE LET mid == (lo + hi) \div 2
         IN  IF MulDivAbs(mid, mid, Scale, Scale - 1) <= x
             THEN SqrtSearch(x, mid, hi)
             ELSE SqrtSearch(x, lo, mid)

\* std::sqrt, for 0 <= x (x below 2146225000, the square of the search limit)
fsqrt(x) == SqrtSearch(x, 0, 1465000)

\* Resolution of sines and cosines: one unit is 1/TrigScale.
TrigScale == 40000

\* float * (a sine or cosine)
tmul(a, t) == Sgn(a) * Sgn(t) * MulDivAbs(Abs(a), Abs(t), TrigScale, TrigScale \div 2)

\* A quarter, a half and a full turn in angle units.  The float pi of the
\* code is 3142 units, so that sin and cos are exact at the quarter turns.
QuarterTurn == 1571
HalfTurn == 2 * QuarterTurn
FullTurn == 4 * QuarterTurn

\* product of two non-negative numbers of resolution TrigScale
TrigMul(a, b) == MulDivAbs(a, b, TrigScale, TrigScale \div 2)

\* an angle of 0 .. QuarterTurn/2 units in radians of resolution TrigScale
\* (a quarter turn is pi/2 = 62832/40000)
TrigRadians(x) == MulDivAbs(x, 62832, QuarterTurn, QuarterTurn \div 2)

\* sin x for 0 <= x <= pi/4:  x (1 - x^2/6 (1 - x^2/20 (1 - x^2/42 (1 - x^2/72))))
SinPoly(x) ==
    LET x2 == TrigMul(x, x)
        t4 == TrigScale - x2 \div 72
        t3 == TrigScale - TrigMul(x2 \div 42, t4)
        t2 == TrigScale - TrigMul(x2 \div 20, t3)
        t1 == TrigScale - TrigMul(x2 \div 6, t2)
    IN  TrigMul(x, t1)

\* cos x for 0 <= x <= pi/4:  1 - x^2/2 (1 - x^2/12 (1 - x^2/30 (1 - x^2/56)))
CosPoly(x) ==
    LET x2 == TrigMul(x, x)
        t4 == TrigScale - x2 \div 56
        t3 == TrigScale - TrigMul(x2 \div 30, t4)
        t2 == TrigScale - TrigMul(x2 \div 12, t3)
    IN  TrigScale - TrigMul(x2 \div 2, t2)

\* sin of 0 .. QuarterTurn angle units
SinQuadrant(x) ==
    IF 2 * x <= QuarterTurn
    THEN SinPoly(TrigRadians(x))
    ELSE CosPoly(TrigRadians(QuarterTurn - x))

\* the angle of the first quadrant with the same sine, up to sign, as the
\* angle r of 0 .. FullTurn-1 units
FirstQuadrant(r) ==
    IF r <= QuarterTurn THEN r
    ELSE IF r <= HalfTurn THEN HalfTurn - r
    ELSE IF r <= HalfTurn + QuarterTurn THEN r - HalfTurn
    ELSE FullTurn - r

\* sin of x >= 0 angle units: negative in the second half of the turn
SinPos(x) ==
    (IF x % FullTurn <= HalfTurn THEN 1 ELSE -1) * SinQuadrant(FirstQuadrant(x % FullTurn))

\* std::sin (odd) and std::cos (even), in units of 1/TrigScale
Sin(a) == Sgn(a) * SinPos(Abs(a))

Cos(a) == SinPos(Abs(a) + QuarterTurn)

\* ------------------------------------------------------------------------
\* math_utils.h
\* ------------------------------------------------------------------------

v3(x, y, z) == [x |-> x, y |-> y, z |-> z]

v3_add(a, b) == v3(a.x + b.x, a.y + b.y, a.z + b.z)


v3_dot(a, b) == fmul(a.x, b.x) + fmul(a.y, b.y) + fmul(a.z, b.z)

v3_length(v) == fsqrt(v3_dot(v, v))

Max(a, b) == IF a < b THEN b ELSE a

Min(a, b) == IF b < a THEN b ELSE a

\* a / b in units of 1/TrigScale, for b > 0 (TrigScale is 4 * 10000)
UnitDiv(a, b) ==
    LET a4 == 4 * Abs(a)
    IN  Sgn(a) * ((a4 \div b) * 10000 + LongDiv(a4 % b, b, 10000))

\* The components of a unit vector carry the resolution of sines and
\* cosines.  1e-20f is below every resolution: the smallest positive value
\* stands for it.
v3_norm(v) ==
    LET len == fsqrt(Max(1, v3_dot(v, v)))
    IN  v3(UnitDiv(v.x, len), UnitDiv(v.y, len), UnitDiv(v.z, len))

\* v3_scale, applied to a unit vector
v3_scale(v, s) == v3(tmul(s, v.x), tmul(s, v.y), tmul(s, v.z))

\* ------------------------------------------------------------------------
\* flight_dynamics.h: the data model
\* ------------------------------------------------------------------------

GRAVITY == 9810

AIR_DENSITY == 1225

PI == 3142

\* AircraftState(): everything zero
AircraftState ==
    [position |-> v3(0, 0, 0),
     pitch |-> 0, yaw |-> 0, roll |-> 0,
     velocity |-> v3(0, 0, 0), speed |-> 0,
     pitchRate |-> 0, yawRate |-> 0, rollRate |-> 0,
     acceleration |-> v3(0, 0, 0),
     angularAcceleration |-> v3(0, 0, 0)]

\* ControlInputs() and ControlInputs::reset()
ControlInputs == [elevator |-> 0, aileron |-> 0, rudder |-> 0, throttle |-> 500]

\* AircraftParams(): the L-39 defaults
AircraftParams ==
    [mass |-> 4700000, wingArea |-> 18800, wingspan |-> 9460,
     liftCoeff |-> 500, dragCoeff |-> 25, sideForceCoeff |-> 0,
     elevatorPower |-> 2000, aileronPower |-> 3000, rudderPower |-> 1500,
     maxThrust |-> 16870000,
     pitchStability |-> 800, rollStability |-> 900, yawStability |-> 700]

\* ------------------------------------------------------------------------
\* flight_dynamics.cpp: helpers and frame transforms
\* ------------------------------------------------------------------------

clamp(v, min, max) == Max(min, Min(max, v))

\* "Roll (around Z)": {x cosR - y sinR, x sinR + y cosR, z}
aroundZ(v, cosR, sinR) ==
    v3(tmul(v.x, cosR) - tmul(v.y, sinR), tmul(v.x, sinR) + tmul(v.y, cosR), v.z)

\* "Pitch (around X)": {x, y cosP - z sinP, y sinP + z cosP}
aroundX(v, cosP, sinP) ==
    v3(v.x, tmul(v.y, cosP) - tmul(v.z, sinP), tmul(v.y, sinP) + tmul(v.z, cosP))

\* "Yaw (around Y)": {x cosY - z sinY, y, x sinY + z cosY}
aroundY(v, cosY, sinY) ==
    v3(tmul(v.x, cosY) - tmul(v.z, sinY), v.y, tmul(v.x, sinY) + tmul(v.z, cosY))

\* roll, then pitch, then yaw
bodyToWorld(st, bodyVec) ==
    aroundY(aroundX(aroundZ(bodyVec, Cos(st.roll), Sin(st.roll)),
                    Cos(st.pitch), Sin(st.pitch)),
            Cos(st.yaw), Sin(st.yaw))

\* worldToBody with the inverse rotations in the order of bodyToWorld
worldToBodySameOrder(st, worldVec) ==
    aroundY(aroundX(aroundZ(worldVec, Cos(-st.roll), Sin(-st.roll)),
                    Cos(-st.pitch), Sin(-st.pitch)),
            Cos(-st.yaw), Sin(-st.yaw))

\* the inverse rotations in reverse order: yaw, then pitch, then roll
worldToBody(st, worldVec) ==
    aroundZ(aroundX(aroundY(worldVec, Cos(-st.yaw), Sin(-st.yaw)),
                    Cos(-st.pitch), Sin(-st.pitch)),
            Cos(-st.roll), Sin(-st.roll))

\* ------------------------------------------------------------------------
\* FlightDynamics::getTransformMatrix and the matrices of math_utils.h.  The
\* upper-left 3x3 of a Mat4 is kept as its three columns (the storage is
\* column-major), in units of 1/TrigScale; the translation is kept apart.
\* ------------------------------------------------------------------------

\* m[5] = c, m[9] = -s, m[6] = s, m[10] = c
mat4_rotate_x(a) ==
    <<v3(TrigScale, 0, 0), v3(0, Cos(a), Sin(a)), v3(0, -Sin(a), Cos(a))>>

\* m[0] = c, m[8] = s, m[2] = -s, m[10] = c
mat4_rotate_y(a) ==
    <<v3(Cos(a), 0, -Sin(a)), v3(0, TrigScale, 0), v3(Sin(a), 0, Cos(a))>>

\* m[0] = c, m[4] = -s, m[1] = s, m[5] = c
mat4_rotate_z(a) ==
    <<v3(Cos(a), Sin(a), 0), v3(-Sin(a), Cos(a), 0), v3(0, 0, TrigScale)>>

\* the matrix applied to a column: sum over k of column k times v[k]
mat4_apply(a, v) ==
    v3(tmul(v.x, a[1].x) + tmul(v.y, a[2].x) + tmul(v.z, a[3].x),
       tmul(v.x, a[1].y) + tmul(v.y, a[2].y) + tmul(v.z, a[3].y),
       tmul(v.x, a[1].z) + tmul(v.y, a[2].z) + tmul(v.z, a[3].z))

\* r.m[c * 4 + row] = sum over k of a.m[k * 4 + row] * b.m[c * 4 + k]
mat4_mul(a, b) == <<mat4_apply(a, b[1]), mat4_apply(a, b[2]), mat4_apply(a, b[3])>>

\* Translation * Yaw * Pitch * Roll
getTransformMatrix(st) ==
    [translation |-> st.position,
     rotation |-> mat4_mul(mat4_rotate_y(st.yaw),
                           mat4_mul(mat4_rotate_x(st.pitch), mat4_rotate_z(st.roll)))]

\* ------------------------------------------------------------------------
\* FlightDynamics::computeForces: body-frame force and torque
\* ------------------------------------------------------------------------

\* "Dynamic pressure: q = 0.5 * rho * V^2", from the stored speed
dynamicPressure(st) == fmul(fmul(frat(AIR_DENSITY, 1, 2), st.speed), st.speed)

\* angleOfAttack = pitch + elevator * 0.3f
angleOfAttack(st, ctl) == st.pitch + frat(ctl.elevator, 3, 10)

\* liftCoeff without the clamp to "realistic limits"
liftCoeffUnclamped(st, ctl, prm) ==
    fmul(prm.liftCoeff, Scale + fmul(angleOfAttack(st, ctl), 3000))

\* liftCoeff = clamp(m_params.liftCoeff * (1 + angleOfAttack * 3), -0.5, 1.5)
liftCoeff(st, ctl, prm) ==
    clamp(fmul(prm.liftCoeff, Scale + fmul(angleOfAttack(st, ctl), 3000)), -500, 1500)

\* liftForce = {0, q * wingArea * liftCoeff, 0}
liftForce(st, ctl, prm) ==
    v3(0, fmul(fmul(dynamicPressure(st), prm.wingArea), liftCoeff(st, ctl, prm)), 0)

\* drag = q * wingArea * m_params.dragCoeff * (1 + angleOfAttack^2 * 5)
drag(st, ctl, prm) ==
    fmul(fmul(dynamicPressure(st), prm.wingArea),
         fmul(prm.dragCoeff,
              Scale + fmul(fmul(angleOfAttack(st, ctl), angleOfAttack(st, ctl)), 5000)))

\* dragForce = -(velocity / speed) * drag if speed > 0.1, else zero; the
\* divisor is the stored m_state.speed
dragForce(st, ctl, prm) ==
    IF st.speed > 100
    THEN v3(fmul(-fdiv(st.velocity.x, st.speed), drag(st, ctl, prm)),
            fmul(-fdiv(st.velocity.y, st.speed), drag(st, ctl, prm)),
            fmul(-fdiv(st.velocity.z, st.speed), drag(st, ctl, prm)))
    ELSE v3(0, 0, 0)

computeForces(st, ctl, prm) ==
    LET thrust == fmul(ctl.throttle, prm.maxThrust)
        thrustForce == v3(0, 0, -thrust)
        gravityWorld == v3(0, -fmul(prm.mass, GRAVITY), 0)
        gravity == worldToBody(st, gravityWorld)
        controlPower == clamp(frat(dynamicPressure(st), 3, 100), 5000, 150000)
        dampingFactor == frat(dynamicPressure(st), 1, 1000)
        pitchMoment == fmul(fmul(-ctl.elevator, prm.elevatorPower), controlPower)
                         - fmul(fmul(st.pitchRate, prm.pitchStability), dampingFactor)
        rollMoment == fmul(fmul(ctl.aileron, prm.aileronPower), controlPower)
                         - fmul(fmul(st.rollRate, prm.rollStability), dampingFactor)
        yawMoment == fmul(fmul(ctl.rudder, prm.rudderPower), controlPower)
                         - fmul(fmul(st.yawRate, prm.yawStability), dampingFactor)
    IN  [force |-> v3_add(thrustForce,
                          v3_add(gravity,
                                 v3_add(liftForce(st, ctl, prm), dragForce(st, ctl, prm)))),
         torque |-> v3(pitchMoment, yawMoment, rollMoment)]

\* ------------------------------------------------------------------------
\* FlightDynamics::integrateState
\* ------------------------------------------------------------------------

\* moments of inertia; 0.0008f is 8/10000, 0.0010f is 1/1000
inertia(prm) ==
    [Ixx |-> frat(fmul(fmul(prm.mass, prm.wingspan), prm.wingspan), 8, 10000),
     Iyy |-> frat(fmul(fmul(prm.mass, 12000), 12000), 8, 10000),
     Izz |-> frat(fmul(fmul(prm.mass, prm.wingspan), prm.wingspan), 1, 1000)]

\* integrateRates with a tenth of the roll acceleration added to the yaw
integrateRatesAdverseYaw(st, prm, dt, torque) ==
    LET I == inertia(prm)
        pitchAccel == fdiv(torque.x, I.Iyy)
        yawAccel == fdiv(torque.y, I.Izz)
        rollAccel == fdiv(torque.z, I.Ixx)
    IN  [st EXCEPT !.pitchRate = @ + fmul(pitchAccel, dt),
                   !.yawRate = @ + fmul(yawAccel + rollAccel \div 10, dt),
                   !.rollRate = @ + fmul(rollAccel, dt)]

\* rate += torque / inertia * dt
integrateRates(st, prm, dt, torque) ==
    LET I == inertia(prm)
        pitchAccel == fdiv(torque.x, I.Iyy)
        yawAccel == fdiv(torque.y, I.Izz)
        rollAccel == fdiv(torque.z, I.Ixx)
    IN  [st EXCEPT !.pitchRate = @ + fmul(pitchAccel, dt),
                   !.yawRate = @ + fmul(yawAccel, dt),
                   !.rollRate = @ + fmul(rollAccel, dt)]

\* clampRates with the three clamps left out
clampRatesMissing(st) == st

clampRates(st) ==
    [st EXCEPT !.pitchRate = clamp(@, -4000, 4000),
               !.yawRate = clamp(@, -3000, 3000),
               !.rollRate = clamp(@, -6000, 6000)]

\* integrateAngles with a yaw rate that is 0.1 rad/s off
integrateAnglesDrifting(st, dt) ==
    [st EXCEPT !.pitch = @ + fmul(st.pitchRate, dt),
               !.yaw = @ + fmul(st.yawRate + 100, dt),
               !.roll = @ + fmul(st.rollRate, dt)]

\* angle += rate * dt
integrateAngles(st, dt) ==
    [st EXCEPT !.pitch = @ + fmul(st.pitchRate, dt),
               !.yaw = @ + fmul(st.yawRate, dt),
               !.roll = @ + fmul(st.rollRate, dt)]

\* while (a > PI) a -= 2.0f * PI;
RECURSIVE wrapDown(_)
wrapDown(a) == IF a > PI THEN wrapDown(a - fmul(2000, PI)) ELSE a

\* while (a < -PI) a += 2.0f * PI;
RECURSIVE wrapUp(_)
wrapUp(a) == IF a < -PI THEN wrapUp(a + fmul(2000, PI)) ELSE a

\* normalizeAngle with "if" for "while": a single wrap
normalizeAngleOnce(a) ==
    IF a > PI THEN a - fmul(2000, PI)
    ELSE IF a < -PI THEN a + fmul(2000, PI)
    ELSE a

normalizeAngle(a) == wrapUp(wrapDown(a))

normalizeAngles(st) ==
    [st EXCEPT !.pitch = normalizeAngle(@),
               !.yaw = normalizeAngle(@),
               !.roll = normalizeAngle(@)]

\* the angular half of integrateState
integrateAngular(st, prm, dt, torque) ==
    normalizeAngles(integrateAngles(clampRates(integrateRates(st, prm, dt, torque)), dt))

\* accel = forceWorld / mass
acceleration(forceWorld, mass) ==
    v3(fdiv(forceWorld.x, mass), fdiv(forceWorld.y, mass), fdiv(forceWorld.z, mass))

\* a += rate * dt, by component (velocity by accel, position by velocity)
advance(a, rate, dt) ==
    v3(a.x + fmul(rate.x, dt), a.y + fmul(rate.y, dt), a.z + fmul(rate.z, dt))

\* velocityWorld after "Update velocity in world frame"
integratedVelocityWorld(st, prm, dt, force) ==
    advance(bodyToWorld(st, st.velocity),
            acceleration(bodyToWorld(st, force), prm.mass), dt)

\* minimumFlyingSpeed with the floor left out
minimumFlyingSpeedMissing(st, velocityWorld) == st

\* "Minimum flying speed"
minimumFlyingSpeed(st, velocityWorld) ==
    IF st.speed < 20000
    THEN IF v3_length(velocityWorld) > 100
         THEN [st EXCEPT !.speed = 20000,
                         !.velocity = worldToBody(st, v3_scale(v3_norm(velocityWorld), 20000))]
         ELSE [st EXCEPT !.speed = 20000]
    ELSE st

\* "Convert back to body frame", "Update position", "Update speed"
moveWith(st, velocityWorld, dt) ==
    [st EXCEPT !.velocity = worldToBody(st, velocityWorld),
               !.position = advance(@, velocityWorld, dt),
               !.speed = v3_length(velocityWorld)]

\* integratePosition that moves the aircraft with the rescaled velocity
integratePositionAfterFloor(st, velocityWorld, dt) ==
    minimumFlyingSpeed(
        moveWith(st,
                 IF v3_length(velocityWorld) < 20000 /\ v3_length(velocityWorld) > 100
                 THEN v3_scale(v3_norm(velocityWorld), 20000)
                 ELSE velocityWorld,
                 dt),
        velocityWorld)

\* the steps of the linear half that follow the new velocityWorld
integratePosition(st, velocityWorld, dt) ==
    minimumFlyingSpeed(moveWith(st, velocityWorld, dt), velocityWorld)

\* the linear half of integrateState; st already carries the new orientation
integrateLinear(st, prm, dt, force) ==
    integratePosition(st, integratedVelocityWorld(st, prm, dt, force), dt)

integrateState(st, prm, dt, force, torque) ==
    integrateLinear(integrateAngular(st, prm, dt, torque), prm, dt, force)

\* ------------------------------------------------------------------------
\* FlightDynamics::update
\* ------------------------------------------------------------------------

\* sanityCheck without the upper limit
sanityCheckNoUpperLimit(deltaTime) == ~(deltaTime <= 0)

\* not (deltaTime <= 0.0f || deltaTime > 1.0f)
sanityCheck(deltaTime) == ~(deltaTime <= 0 \/ deltaTime > 1000)

\* groundConstraint with the friction applied on every clamp
groundConstraintAlwaysFriction(st) ==
    IF st.position.y < 2000
    THEN [st EXCEPT !.position.y = 2000,
                    !.velocity = v3(frat(@.x, 95, 100), Max(@.y, 0), frat(@.z, 95, 100))]
    ELSE st

\* "Enforce ground constraint"; 0.95f is 95/100
groundConstraint(st) ==
    IF st.position.y < 2000
    THEN IF st.velocity.y < 0
         THEN [st EXCEPT !.position.y = 2000,
                         !.velocity = v3(frat(@.x, 95, 100), 0, frat(@.z, 95, 100))]
         ELSE [st EXCEPT !.position.y = 2000]
    ELSE st

\* update whose integration recomputes the force from the state the angular
\* half has already changed (the integrateState(float dt) the header declares)
updateRecomputing(st, ctl, prm, deltaTime) ==
    IF ~sanityCheck(deltaTime)
    THEN [state |-> st, integrated |-> st, stages |-> << >>]
    ELSE LET ft == computeForces(st, ctl, prm)
             turned == integrateAngular(st, prm, deltaTime, ft.torque)
             again == computeForces(turned, ctl, prm)
             mid == integrateLinear(turned, prm, deltaTime, again.force)
         IN  [state |-> groundConstraint(mid),
              integrated |-> mid,
              stages |-> <<"computeForces", "integrateState", "computeForces",
                           "groundConstraint">>]

\* integrateState(deltaTime, force, torque) with the pair computeForces filled
integrateWith(st, prm, deltaTime, ft) ==
    integrateState(st, prm, deltaTime, ft.force, ft.torque)

\* the ground constraint, after integrateState left the state mid
constrained(mid) ==
    [state |-> groundConstraint(mid),
     integrated |-> mid,
     stages |-> <<"computeForces", "integrateState", "groundConstraint">>]

\* update(deltaTime) on the engine (st, ctl, prm): the new state, the state
\* integrateState left before the ground constraint, and the stages executed
update(st, ctl, prm, deltaTime) ==
    IF ~sanityCheck(deltaTime)
    THEN [state |-> st, integrated |-> st, stages |-> << >>]
    ELSE constrained(integrateWith(st, prm, deltaTime, computeForces(st, ctl, prm)))

\* ------------------------------------------------------------------------
\* FlightDynamics::reset, initialize
\* ------------------------------------------------------------------------

\* reset that forgets the remembered heading
resetForgetsHeading(initialPosition, initialHeading) ==
    [AircraftState EXCEPT !.position = initialPosition,
                          !.velocity = v3(0, 0, -50000),
                          !.speed = 50000]

\* m_state after reset() with the remembered position and heading
reset(initialPosition, initialHeading) ==
    [AircraftState EXCEPT !.position = initialPosition,
                          !.yaw = initialHeading,
                          !.velocity = v3(0, 0, -50000),
                          !.speed = 50000]

\* setControlInputs that clamps what it stores to [-1, 1] and [0, 1]
setControlInputsClamped(inputs) ==
    [elevator |-> clamp(inputs.elevator, -1000, 1000),
     aileron |-> clamp(inputs.aileron, -1000, 1000),
     rudder |-> clamp(inputs.rudder, -1000, 1000),
     throttle |-> clamp(inputs.throttle, 0, 1000)]

\* m_controls after setControlInputs(inputs): m_controls = inputs
setControlInputs(inputs) == inputs

\* ------------------------------------------------------------------------
\* The engine as a state machine
\* ------------------------------------------------------------------------

VARIABLES
    m_state,            \* AircraftState
    m_params,           \* AircraftParams (setParameters has no caller)
    m_controls,         \* ControlInputs
    m_initialPosition,  \* remembered for reset()
    m_initialHeading,
    frameCount,         \* static int frameCount of computeForces
    logged,             \* static bool logged of integrateState
    lastCall,           \* history: the last operation and its argument
    spawn,              \* history: the arguments of the latest initialize
    flown,              \* history: a step was integrated since the latest initialize
    integrated,         \* history: m_state as the last update's integrateState left it
    stages,             \* history: the stages the last update executed
    steps               \* history: number of update calls so far

\* The application around the engine: its main loop and its key state.
VARIABLES
    loop,                   \* the application driving the engine: "app", "app_v2", "app_v3"
    m_flightMode,           \* app: flight mode; app_v2, app_v3: the player entity has
                            \* its FlightDynamicsBehavior
    m_upPressed,
    m_downPressed,
    m_leftPressed,
    m_rightPressed,
    m_rudderLeftPressed,
    m_rudderRightPressed,
    seen,                   \* history: the ControlInputs the last frame's engine update read
    gathered,               \* history: the ControlInputs the last frame's input pass wrote
    events                  \* history: number of stick key events and spawns so far

\* A second engine of the same process, and the calls made on each engine.
VARIABLES
    twin,                   \* the members of the second FlightDynamics
    calls                   \* history: the calls made on the engines "A" and "B", in order

\* A vector taken through the frame transforms.
VARIABLES
    probe

engine == <<m_state, m_params, m_controls, m_initialPosition, m_initialHeading,
            frameCount, logged>>

history == <<lastCall, spawn, flown, integrated, stages, steps>>

keyState == <<m_upPressed, m_downPressed, m_leftPressed, m_rightPressed,
              m_rudderLeftPressed, m_rudderRightPressed>>

input == <<loop, m_flightMode, m_upPressed, m_downPressed, m_leftPressed, m_rightPressed,
           m_rudderLeftPressed, m_rudderRightPressed, seen, gathered, events>>

twins == <<twin, calls>>

vars == <<m_state, m_params, m_controls, m_initialPosition, m_initialHeading,
          frameCount, logged, lastCall, spawn, flown, integrated, stages, steps,
          loop, m_flightMode, m_upPressed, m_downPressed, m_leftPressed, m_rightPressed,
          m_rudderLeftPressed, m_rudderRightPressed, seen, gathered, events,
          twin, calls, probe>>

\* number of update calls a behaviour makes
MaxSteps == 2

\* initialize(position, heading) arguments: the default spawn, a spawn on the
\* ground floor, a spawn below it
Positions == {v3(0, 100000, 0), v3(10000, 2000, -10000), v3(0, -5000, 0)}

\* headings: north, minus pi, and 20 rad (more than three turns)
Headings == {0, -PI, 20000}

\* update(dt) arguments: negative, zero, one 60 Hz frame, exactly one second,
\* just over one second
DeltaTimes == {-16, 0, 16, 1000, 1001}

\* control settings written by the caller: the defaults, a full pull with
\* full throttle, full aileron alone, full opposite rudder alone, a
\* coordinated half deflection at idle, and two out-of-range settings (the
\* engine rejects nothing): thirtyfold deflections and a tenfold reverse
\* throttle
ControlSettings ==
    {ControlInputs,
     [elevator |-> 1000, aileron |-> 0, rudder |-> 0, throttle |-> 1000],
     [elevator |-> 0, aileron |-> 1000, rudder |-> 0, throttle |-> 500],
     [elevator |-> 0, aileron |-> 0, rudder |-> -1000, throttle |-> 500],
     [elevator |-> 0, aileron |-> 500, rudder |-> -500, throttle |-> 0],
     [elevator |-> -30000, aileron |-> -30000, rudder |-> 30000, throttle |-> 500],
     [elevator |-> 0, aileron |-> 0, rudder |-> 0, throttle |-> -10000]}

\* the members of a FlightDynamics after its constructor
constructed ==
    [m_state |-> reset(v3(0, 100000, 0), 0),
     m_params |-> AircraftParams,
     m_controls |-> ControlInputs,
     m_initialPosition |-> v3(0, 100000, 0),
     m_initialHeading |-> 0]

\* no application: nothing but the engine's own interface is exercised
NoApplication ==
    /\ loop = "none"
    /\ m_flightMode = FALSE
    /\ m_upPressed = FALSE
    /\ m_downPressed = FALSE
    /\ m_leftPressed = FALSE
    /\ m_rightPressed = FALSE
    /\ m_rudderLeftPressed = FALSE
    /\ m_rudderRightPressed = FALSE
    /\ seen = ControlInputs
    /\ gathered = ControlInputs
    /\ events = 0

\* the second engine, constructed and never called
NoTwin ==
    /\ twin = constructed
    /\ calls = [A |-> << >>, B |-> << >>]

\* no vector under transformation
NoProbe == probe = [frame |-> "none", vec |-> v3(0, 0, 0), origin |-> v3(0, 0, 0), hops |-> 0]

\* FlightDynamics(): remembered pose (0, 100, 0), heading 0, then reset()
Init ==
    /\ NoApplication
    /\ NoTwin
    /\ NoProbe
    /\ m_initialPosition = v3(0, 100000, 0)
    /\ m_initialHeading = 0
    /\ m_state = reset(v3(0, 100000, 0), 0)
    /\ m_controls = ControlInputs
    /\ m_params = AircraftParams
    /\ frameCount = 0
    /\ logged = FALSE
    /\ lastCall = [op |-> "construct", dt |-> 0]
    /\ spawn = [position |-> v3(0, 100000, 0), heading |-> 0]
    /\ flown = FALSE
    /\ integrated = m_state
    /\ stages = << >>
    /\ steps = 0

Initialize(position, heading) ==
    /\ m_initialPosition' = position
    /\ m_initialHeading' = heading
    /\ m_state' = reset(position, heading)
    /\ m_controls' = ControlInputs
    /\ lastCall' = [op |-> "initialize", dt |-> 0]
    /\ spawn' = [position |-> position, heading |-> heading]
    /\ flown' = FALSE
    /\ integrated' = m_state'
    /\ stages' = << >>
    /\ UNCHANGED <<m_params, frameCount, logged, steps>>

Reset ==
    /\ m_state' = reset(m_initialPosition, m_initialHeading)
    /\ m_controls' = ControlInputs
    /\ lastCall' = [op |-> "reset", dt |-> 0]
    /\ integrated' = m_state'
    /\ stages' = << >>
    /\ UNCHANGED <<m_params, m_initialPosition, m_initialHeading, frameCount, logged,
                   spawn, flown, steps>>

SetControlInputs(inputs) ==
    /\ m_controls' = setControlInputs(inputs)
    /\ lastCall' = [op |-> "setControlInputs", dt |-> 0, inputs |-> inputs]
    /\ integrated' = m_state
    /\ stages' = << >>
    /\ UNCHANGED <<m_state, m_params, m_initialPosition, m_initialHeading,
                   frameCount, logged, spawn, flown, steps>>

\* the number of computeForces calls among the stages (each does ++frameCount)
RECURSIVE Count(_, _)
Count(seq, x) ==
    IF seq = << >> THEN 0
    ELSE (IF Head(seq) = x THEN 1 ELSE 0) + Count(Tail(seq), x)

Update(deltaTime) ==
    /\ steps < MaxSteps
    /\ LET r == update(m_state, m_controls, m_params, deltaTime)
       IN  /\ m_state' = r.state
           /\ integrated' = r.integrated
           /\ stages' = r.stages
           /\ frameCount' = frameCount + Count(r.stages, "computeForces")
           /\ logged' = (logged \/ Count(r.stages, "integrateState") > 0)
           /\ flown' = (flown \/ Count(r.stages, "integrateState") > 0)
    /\ lastCall' = [op |-> "update", dt |-> deltaTime]
    /\ steps' = steps + 1
    /\ UNCHANGED <<m_params, m_controls, m_initialPosition, m_initialHeading, spawn>>

Next ==
    \/ \E position \in Positions, heading \in Headings :
          Initialize(position, heading) /\ UNCHANGED <<input, twins, probe>>
    \/ Reset /\ UNCHANGED <<input, twins, probe>>
    \/ \E inputs \in ControlSettings :
          SetControlInputs(inputs) /\ UNCHANGED <<input, twins, probe>>
    \/ \E deltaTime \in DeltaTimes :
          Update(deltaTime) /\ UNCHANGED <<input, twins, probe>>

Spec == Init /\ [][Next]_vars

\* ------------------------------------------------------------------------
\* The applications: key state, per-frame input pass, engine update
\* ------------------------------------------------------------------------

\* FlightDynamicsBehavior::initialize with the entity at position, heading:
\* the engine's initialize, then the velocity and throttle overrides
behaviorInitialize(position, heading) ==
    [m_state |-> [reset(position, heading) EXCEPT
                     !.velocity = v3(tmul(-50000, Sin(heading)), 0,
                                     tmul(-50000, Cos(heading))),
                     !.speed = 50000],
     m_controls |-> [ControlInputs EXCEPT !.throttle = 700]]

\* FlightDynamicsBehavior::reset() on an entity at (position, heading): the
\* engine's initialize and nothing else
behaviorReset(position, heading) ==
    [m_state |-> reset(position, heading),
     m_controls |-> ControlInputs]

\* controls.x = 0; if (plusPressed) x += step; if (minusPressed) x -= step
deflection(plusPressed, minusPressed, step) ==
    (IF plusPressed THEN step ELSE 0) - (IF minusPressed THEN step ELSE 0)

\* the stick deflection of a key: 1.0 in app, 0.5 in app_v2 and app_v3
stickDeflection(application) == IF application = "app" THEN 1000 ELSE 500

\* the ControlInputs after the input pass of a frame has read the key state
gatherControls(controls, step) ==
    [controls EXCEPT
        !.elevator = deflection(m_upPressed, m_downPressed, step),
        !.aileron = deflection(m_leftPressed, m_rightPressed, step),
        !.rudder = deflection(m_rudderLeftPressed, m_rudderRightPressed, step)]

\* throttleUp without the std::min
throttleUpUnclamped(throttle) == throttle + 100

\* throttle = std::min(1.0f, throttle + 0.1f)
throttleUp(throttle) == Min(1000, throttle + 100)

\* throttle = std::max(0.0f, throttle - 0.1f)
throttleDown(throttle) == Max(0, throttle - 100)

\* startHeading = m_objectRotation.y * 3.14159f / 180.0f
degreesToRadians(degrees) == (degrees * PI) \div 180

\* number of frames with an engine update a behaviour makes
MaxFrames == 2

\* number of stick key events and flight mode toggles a behaviour makes
\* (the throttle keys are not counted: the throttle has eleven values)
MaxKeyEvents == 2

Applications == {"app", "app_v2", "app_v3"}

StickKeys == {"UP", "DOWN", "LEFT", "RIGHT", "DELETE", "PAGE_DOWN"}

ThrottleKeys == {"EQUAL", "MINUS"}

\* the keys a behaviour uses: the two opposing pitch keys and the throttle
PressedKeys == {"UP", "DOWN", "EQUAL", "MINUS"}

\* the object of app at the origin; the aircraft entity of a scene
ObjectPositions == {v3(0, 0, 0)}

EntityPositions == {v3(0, 100000, 0)}

\* m_objectRotation.y, in degrees
ObjectRotations == {90}

\* the entity's yaw, in radians
EntityHeadings == {0, 500}

\* one 60 Hz frame
FrameTimes == {16}

\* an application starts with a constructed engine and no key down
AppInit ==
    /\ loop \in Applications
    /\ m_flightMode = FALSE
    /\ m_upPressed = FALSE
    /\ m_downPressed = FALSE
    /\ m_leftPressed = FALSE
    /\ m_rightPressed = FALSE
    /\ m_rudderLeftPressed = FALSE
    /\ m_rudderRightPressed = FALSE
    /\ seen = ControlInputs
    /\ gathered = ControlInputs
    /\ events = 0
    /\ NoTwin
    /\ NoProbe
    /\ m_initialPosition = constructed.m_initialPosition
    /\ m_initialHeading = constructed.m_initialHeading
    /\ m_state = constructed.m_state
    /\ m_controls = constructed.m_controls
    /\ m_params = constructed.m_params
    /\ frameCount = 0
    /\ logged = FALSE
    /\ lastCall = [op |-> "construct", dt |-> 0]
    /\ spawn = [position |-> v3(0, 100000, 0), heading |-> 0]
    /\ flown = FALSE
    /\ integrated = m_state
    /\ stages = << >>
    /\ steps = 0

\* app, the F key: flight mode off, or on with the engine initialized at the
\* object's position, raised to 50 m, and its yaw in radians
ToggleFlightMode(position, degrees) ==
    /\ loop = "app"
    /\ steps < MaxFrames
    /\ events < MaxKeyEvents
    /\ m_flightMode' = ~m_flightMode
    /\ IF m_flightMode'
       THEN /\ Initialize([position EXCEPT !.y = Max(50000, @)], degreesToRadians(degrees))
            /\ UNCHANGED <<seen, gathered>>
       ELSE /\ lastCall' = [op |-> "flightModeOff", dt |-> 0]
            /\ UNCHANGED <<engine, spawn, flown, integrated, stages, steps, seen, gathered>>
    /\ events' = events + 1
    /\ UNCHANGED <<loop, keyState, twins, probe>>

\* app_v2, app_v3: the scene loader gives the player entity its
\* FlightDynamicsBehavior, whose initialize() runs at once
AddBehavior(position, heading) ==
    /\ loop \in {"app_v2", "app_v3"}
    /\ ~m_flightMode
    /\ m_flightMode' = TRUE
    /\ m_initialPosition' = position
    /\ m_initialHeading' = heading
    /\ m_state' = behaviorInitialize(position, heading).m_state
    /\ m_controls' = behaviorInitialize(position, heading).m_controls
    /\ lastCall' = [op |-> "behaviorInitialize", dt |-> 0]
    /\ spawn' = [position |-> position, heading |-> heading]
    /\ flown' = FALSE
    /\ integrated' = m_state'
    /\ stages' = << >>
    /\ UNCHANGED <<m_params, frameCount, logged, steps, loop, keyState, seen, gathered,
                   events, twins, probe>>

\* FlightDynamicsBehavior::reset() at the end of a flight of MaxFrames
\* frames.  The entity is where the behaviour's update put it: at the
\* position and the yaw of the state.
BehaviorReset ==
    /\ loop \in {"app_v2", "app_v3"}
    /\ m_flightMode
    /\ flown
    /\ steps = MaxFrames
    /\ m_initialPosition' = m_state.position
    /\ m_initialHeading' = m_state.yaw
    /\ m_state' = behaviorReset(m_state.position, m_state.yaw).m_state
    /\ m_controls' = behaviorReset(m_state.position, m_state.yaw).m_controls
    /\ lastCall' = [op |-> "behaviorReset", dt |-> 0]
    /\ spawn' = [position |-> m_state.position, heading |-> m_state.yaw]
    /\ flown' = FALSE
    /\ integrated' = m_state'
    /\ stages' = << >>
    /\ UNCHANGED <<m_params, frameCount, logged, steps, loop, m_flightMode, keyState,
                   seen, gathered, events, twins, probe>>

\* onKey / onKeyPress / onKeyRelease: a stick key sets its flag; a press of
\* a throttle key steps the throttle of the flying aircraft
KeyEvent(key, pressed) ==
    /\ loop \in Applications
    /\ steps < MaxFrames
    /\ key \in StickKeys => events < MaxKeyEvents
    /\ m_upPressed' = IF key = "UP" THEN pressed ELSE m_upPressed
    /\ m_downPressed' = IF key = "DOWN" THEN pressed ELSE m_downPressed
    /\ m_leftPressed' = IF key = "LEFT" THEN pressed ELSE m_leftPressed
    /\ m_rightPressed' = IF key = "RIGHT" THEN pressed ELSE m_rightPressed
    /\ m_rudderLeftPressed' = IF key = "DELETE" THEN pressed ELSE m_rudderLeftPressed
    /\ m_rudderRightPressed' = IF key = "PAGE_DOWN" THEN pressed ELSE m_rudderRightPressed
    /\ m_controls' =
          IF m_flightMode /\ pressed /\ key = "EQUAL"
          THEN [m_controls EXCEPT !.throttle = throttleUp(@)]
          ELSE IF m_flightMode /\ pressed /\ key = "MINUS"
          THEN [m_controls EXCEPT !.throttle = throttleDown(@)]
          ELSE m_controls
    /\ events' = IF key \in StickKeys THEN events + 1 ELSE events
    /\ lastCall' = [op |-> "key", dt |-> 0]
    /\ integrated' = m_state
    /\ stages' = << >>
    /\ UNCHANGED <<m_state, m_params, m_initialPosition, m_initialHeading, frameCount,
                   logged, spawn, flown, steps, loop, m_flightMode, seen, gathered,
                   twins, probe>>

\* CubeApp::update(deltaTime) while the aircraft flies.  app gathers the
\* controls from the key state and then updates the engine; app_v2 and
\* app_v3 update the entity registry, and with it the engine, first and run
\* the input pass afterwards.
Frame(deltaTime) ==
    /\ loop \in Applications
    /\ m_flightMode
    /\ steps < MaxFrames
    /\ gathered' = gatherControls(m_controls, stickDeflection(loop))
    /\ seen' = IF loop = "app" THEN gathered' ELSE m_controls
    /\ m_controls' = gathered'
    /\ LET r == update(m_state, seen', m_params, deltaTime)
       IN  /\ m_state' = r.state
           /\ integrated' = r.integrated
           /\ stages' = r.stages
           /\ frameCount' = frameCount + Count(r.stages, "computeForces")
           /\ logged' = (logged \/ Count(r.stages, "integrateState") > 0)
           /\ flown' = (flown \/ Count(r.stages, "integrateState") > 0)
    /\ lastCall' = [op |-> "frame", dt |-> deltaTime]
    /\ steps' = steps + 1
    /\ UNCHANGED <<m_params, m_initialPosition, m_initialHeading, spawn, loop,
                   m_flightMode, keyState, events, twins, probe>>

AppNext ==
    \/ \E position \in ObjectPositions, degrees \in ObjectRotations :
          ToggleFlightMode(position, degrees)
    \/ \E position \in EntityPositions, heading \in EntityHeadings :
          AddBehavior(position, heading)
    \/ \E key \in PressedKeys, pressed \in BOOLEAN : KeyEvent(key, pressed)
    \/ \E deltaTime \in FrameTimes : Frame(deltaTime)
    \/ BehaviorReset

AppSpec == AppInit /\ [][AppNext]_vars

\* ------------------------------------------------------------------------
\* Two engines in one process
\* ------------------------------------------------------------------------

\* membersOf with the ControlInputs of engine "A" shared by both engines
membersOfSharingControls(e) ==
    IF e = "A"
    THEN [m_state |-> m_state, m_params |-> m_params, m_controls |-> m_controls,
          m_initialPosition |-> m_initialPosition, m_initialHeading |-> m_initialHeading]
    ELSE [twin EXCEPT !.m_controls = m_controls]

\* the data members of engine e
membersOf(e) ==
    IF e = "A"
    THEN [m_state |-> m_state, m_params |-> m_params, m_controls |-> m_controls,
          m_initialPosition |-> m_initialPosition, m_initialHeading |-> m_initialHeading]
    ELSE twin

\* applyUpdate whose integration is guarded by the one-shot log guard
applyUpdateOnceLogged(members, deltaTime) ==
    IF logged
    THEN members
    ELSE [members EXCEPT !.m_state = update(members.m_state, members.m_controls,
                                           members.m_params, deltaTime).state]

\* the members after update(deltaTime)
applyUpdate(members, deltaTime) ==
    [members EXCEPT !.m_state = update(members.m_state, members.m_controls,
                                       members.m_params, deltaTime).state]

\* the members after a call of the public interface
apply(members, call) ==
    CASE call.op = "initialize" ->
            [members EXCEPT !.m_initialPosition = call.position,
                            !.m_initialHeading = call.heading,
                            !.m_state = reset(call.position, call.heading),
                            !.m_controls = ControlInputs]
      [] call.op = "reset" ->
            [members EXCEPT !.m_state = reset(members.m_initialPosition,
                                              members.m_initialHeading),
                            !.m_controls = ControlInputs]
      [] call.op = "setControlInputs" ->
            [members EXCEPT !.m_controls = setControlInputs(call.inputs)]
      [] call.op = "update" -> applyUpdate(members, call.dt)

\* the members after a sequence of calls on an engine that is alone
RECURSIVE replay(_, _)
replay(members, sequence) ==
    IF sequence = << >>
    THEN members
    ELSE replay(apply(members, Head(sequence)), Tail(sequence))

\* number of calls a behaviour makes on the two engines together
MaxCalls == 4

Engines == {"A", "B"}

\* a call: the operation and its arguments (those the operation does not
\* take are left at a default)
aCall(op, position, heading, inputs, dt) ==
    [op |-> op, position |-> position, heading |-> heading, inputs |-> inputs, dt |-> dt]

\* initialize on the ground at 20 rad, reset, a full pull at full throttle,
\* one 60 Hz frame, a rejected timestep
TwinCalls ==
    {aCall("initialize", v3(10000, 2000, -10000), 20000, ControlInputs, 0),
     aCall("reset", v3(0, 0, 0), 0, ControlInputs, 0),
     aCall("setControlInputs", v3(0, 0, 0), 0,
           [elevator |-> 1000, aileron |-> 0, rudder |-> 0, throttle |-> 1000], 0),
     aCall("update", v3(0, 0, 0), 0, ControlInputs, 16),
     aCall("update", v3(0, 0, 0), 0, ControlInputs, 1001)}

\* two engines constructed alike
TwinInit ==
    /\ NoApplication
    /\ NoProbe
    /\ twin = constructed
    /\ calls = [A |-> << >>, B |-> << >>]
    /\ m_initialPosition = constructed.m_initialPosition
    /\ m_initialHeading = constructed.m_initialHeading
    /\ m_state = constructed.m_state
    /\ m_controls = constructed.m_controls
    /\ m_params = constructed.m_params
    /\ frameCount = 0
    /\ logged = FALSE
    /\ lastCall = [op |-> "construct", dt |-> 0]
    /\ spawn = [position |-> v3(0, 100000, 0), heading |-> 0]
    /\ flown = FALSE
    /\ integrated = m_state
    /\ stages = << >>
    /\ steps = 0

\* the members of engine "A" become those given
StoreA(members) ==
    /\ m_state' = members.m_state
    /\ m_params' = members.m_params
    /\ m_controls' = members.m_controls
    /\ m_initialPosition' = members.m_initialPosition
    /\ m_initialHeading' = members.m_initialHeading

\* one call on engine e; every update with a valid timestep counts in the
\* statics the two engines share
Call(e, call) ==
    /\ Len(calls.A) + Len(calls.B) < MaxCalls
    /\ calls' = [calls EXCEPT ![e] = Append(@, call)]
    /\ IF e = "A"
       THEN StoreA(apply(membersOf("A"), call)) /\ twin' = twin
       ELSE twin' = apply(membersOf("B"), call)
            /\ UNCHANGED <<m_state, m_params, m_controls, m_initialPosition,
                           m_initialHeading>>
    /\ frameCount' = IF call.op = "update" /\ sanityCheck(call.dt)
                     THEN frameCount + 1 ELSE frameCount
    /\ logged' = (logged \/ (call.op = "update" /\ sanityCheck(call.dt)))
    /\ lastCall' = [op |-> call.op, dt |-> call.dt]
    /\ UNCHANGED <<spawn, flown, integrated, stages, steps, input, probe>>

TwinNext == \E e \in Engines, call \in TwinCalls : Call(e, call)

TwinSpec == TwinInit /\ [][TwinNext]_vars

\* ------------------------------------------------------------------------
\* The frame transforms on their own
\* ------------------------------------------------------------------------

\* number of transforms applied to one vector in a row
MaxHops == 2

\* level, the quarter turns, and two attitudes off the axes
Attitudes == {0, QuarterTurn, -QuarterTurn, HalfTurn, 500, -2100}

\* a unit vector, the spawn velocity, and a vector off every axis
Vectors == {v3(1000, 0, 0), v3(0, 0, -50000), v3(3000, -4000, 12000)}

Frames == {"body", "world"}

\* an engine at any attitude, and a vector given in either frame
FrameInit ==
    /\ NoApplication
    /\ NoTwin
    /\ \E pitch \in Attitudes, yaw \in Attitudes, roll \in Attitudes :
          m_state = [constructed.m_state EXCEPT !.pitch = pitch, !.yaw = yaw, !.roll = roll]
    /\ \E frame \in Frames, vec \in Vectors :
          probe = [frame |-> frame, vec |-> vec, origin |-> vec, hops |-> 0]
    /\ m_initialPosition = constructed.m_initialPosition
    /\ m_initialHeading = constructed.m_initialHeading
    /\ m_controls = constructed.m_controls
    /\ m_params = constructed.m_params
    /\ frameCount = 0
    /\ logged = FALSE
    /\ lastCall = [op |-> "construct", dt |-> 0]
    /\ spawn = [position |-> v3(0, 100000, 0), heading |-> 0]
    /\ flown = FALSE
    /\ integrated = m_state
    /\ stages = << >>
    /\ steps = 0

\* the vector, given in the body frame, is taken to the world frame
BodyToWorld ==
    /\ probe.frame = "body"
    /\ probe.hops < MaxHops
    /\ probe' = [probe EXCEPT !.frame = "world",
                              !.vec = bodyToWorld(m_state, probe.vec),
                              !.hops = @ + 1]
    /\ lastCall' = [op |-> "bodyToWorld", dt |-> 0]
    /\ UNCHANGED <<m_initialPosition, m_initialHeading, m_state, m_controls, m_params,
                   frameCount, logged, spawn, flown, integrated, stages, steps,
                   input, twins>>

\* the vector, given in the world frame, is taken to the body frame
WorldToBody ==
    /\ probe.frame = "world"
    /\ probe.hops < MaxHops
    /\ probe' = [probe EXCEPT !.frame = "body",
                              !.vec = worldToBody(m_state, probe.vec),
                              !.hops = @ + 1]
    /\ lastCall' = [op |-> "worldToBody", dt |-> 0]
    /\ UNCHANGED <<m_initialPosition, m_initialHeading, m_state, m_controls, m_params,
                   frameCount, logged, spawn, flown, integrated, stages, steps,
                   input, twins>>

\* the renderer takes the vector, given in the body frame, through the
\* rotation of getTransformMatrix(); the query changes nothing of the engine
GetTransformMatrix ==
    /\ probe.frame = "body"
    /\ probe.hops = 0
    /\ probe' = [probe EXCEPT !.frame = "render",
                              !.vec = mat4_apply(getTransformMatrix(m_state).rotation,
                                                 probe.vec)]
    /\ lastCall' = [op |-> "getTransformMatrix", dt |-> 0]
    /\ UNCHANGED <<m_initialPosition, m_initialHeading, m_state, m_controls, m_params,
                   frameCount, logged, spawn, flown, integrated, stages, steps,
                   input, twins>>

FrameNext == BodyToWorld \/ WorldToBody \/ GetTransformMatrix

FrameSpec == FrameInit /\ [][FrameNext]_vars

\* ------------------------------------------------------------------------
\* Level flight at cruise throttle: initialize, set the throttle, 600 frames
\* ------------------------------------------------------------------------

\* number of update calls of the scenario (10 s at 60 Hz)
ScenarioSteps == 600

\* throttle 0.7, the surfaces centred
CruiseControls == [elevator |-> 0, aileron |-> 0, rudder |-> 0, throttle |-> 700]

\* a constructed engine
ScenarioInit == Init

\* initialize({0, 100, 0}, 0)
ScenarioInitialize ==
    /\ lastCall.op = "construct"
    /\ Initialize(v3(0, 100000, 0), 0)
    /\ UNCHANGED <<input, twins, probe>>

\* setControlInputs with throttle 0.7 and the surfaces centred
ScenarioThrottle ==
    /\ lastCall.op = "initialize"
    /\ SetControlInputs(CruiseControls)
    /\ UNCHANGED <<input, twins, probe>>

\* update(0.016), 600 times
ScenarioUpdate ==
    /\ lastCall.op \in {"setControlInputs", "update"}
    /\ steps < ScenarioSteps
    /\ LET r == update(m_state, m_controls, m_params, 16)
       IN  /\ m_state' = r.state
           /\ integrated' = r.integrated
           /\ stages' = r.stages
           /\ frameCount' = frameCount + Count(r.stages, "computeForces")
           /\ logged' = (logged \/ Count(r.stages, "integrateState") > 0)
           /\ flown' = (flown \/ Count(r.stages, "integrateState") > 0)
    /\ lastCall' = [op |-> "update", dt |-> 16]
    /\ steps' = steps + 1
    /\ UNCHANGED <<m_params, m_controls, m_initialPosition, m_initialHeading, spawn,
                   input, twins, probe>>

ScenarioNext == ScenarioInitialize \/ ScenarioThrottle \/ ScenarioUpdate

Scenario == ScenarioInit /\ [][ScenarioNext]_vars

\* ------------------------------------------------------------------------
\* An engine whose velocity the caller writes through getState(), as
\* FlightDynamicsBehavior::initialize does after the engine's initialize
\* ------------------------------------------------------------------------

\* spawns in the air, on the ground floor and below it
WrittenPositions == {v3(0, 100000, 0), v3(10000, 2000, -10000), v3(0, -5000, 0)}

\* body velocities written by the caller: the engine's own 50 m/s, 10 m/s
\* ahead, a slow velocity off every axis, 0.05 m/s ahead, and a climb
WrittenVelocities ==
    {v3(0, 0, -50000), v3(0, 0, -10000), v3(3000, -4000, -12000), v3(0, 0, -50),
     v3(0, 5000, -50000)}

\* the defaults, a full pull at full throttle, a tenfold reverse throttle
WrittenControls ==
    {ControlInputs,
     [elevator |-> 1000, aileron |-> 0, rudder |-> 0, throttle |-> 1000],
     [elevator |-> 0, aileron |-> 0, rudder |-> 0, throttle |-> -10000]}

\* a millisecond, one 60 Hz frame, one second
WrittenFrameTimes == {1, 16, 1000}

\* initialize(position, 0) on the constructed engine
WriteInitialize(position) ==
    /\ lastCall.op = "construct"
    /\ Initialize(position, 0)
    /\ UNCHANGED <<input, twins, probe>>

\* getState().velocity = velocity; getState().speed = its length
WriteVelocity(velocity) ==
    /\ lastCall.op = "initialize"
    /\ m_state' = [m_state EXCEPT !.velocity = velocity, !.speed = v3_length(velocity)]
    /\ integrated' = m_state'
    /\ lastCall' = [op |-> "getState", dt |-> 0]
    /\ UNCHANGED <<m_params, m_controls, m_initialPosition, m_initialHeading,
                   frameCount, logged, spawn, flown, stages, steps,
                   input, twins, probe>>

\* setControlInputs(inputs), once the velocity is written
WriteControls(inputs) ==
    /\ lastCall.op = "getState"
    /\ SetControlInputs(inputs)
    /\ UNCHANGED <<input, twins, probe>>

\* update(deltaTime), up to MaxSteps times
WriteUpdate(deltaTime) ==
    /\ lastCall.op \in {"setControlInputs", "update"}
    /\ Update(deltaTime)
    /\ UNCHANGED <<input, twins, probe>>

WriteNext ==
    \/ \E position \in WrittenPositions : WriteInitialize(position)
    \/ \E velocity \in WrittenVelocities : WriteVelocity(velocity)
    \/ \E inputs \in WrittenControls : WriteControls(inputs)
    \/ \E deltaTime \in WrittenFrameTimes : WriteUpdate(deltaTime)

WriteSpec == Init /\ [][WriteNext]_vars

\* ------------------------------------------------------------------------
\* Properties
\* ------------------------------------------------------------------------

\* the last operation was an update whose deltaTime is in (0, 1]
ValidStep == lastCall.op = "update" /\ lastCall.dt > 0 /\ lastCall.dt <= 1000

\* the world-frame velocity of a state
WorldVelocity(st) == bodyToWorld(st, st.velocity)

\* equal up to the rounding of a few operations (5 units = 0.005)
Near(a, b) == Abs(a - b) <= 5

TheStages == <<"computeForces", "integrateState", "groundConstraint">>

\* C1: update(dt) with dt <= 0 or dt > 1.0 changes nothing of the engine
\* (state, controls, parameters, remembered pose, no force computation, no
\* stage executed); update(1.0) is accepted: it computes the forces once,
\* runs every stage and moves the aircraft.
C1_InvalidTimestepIsNoOp ==
    [][ /\ (lastCall'.op = "update" /\ (lastCall'.dt <= 0 \/ lastCall'.dt > 1000))
            => (UNCHANGED engine /\ stages' = << >>)
        /\ (lastCall'.op = "update" /\ lastCall'.dt = 1000)
            => /\ stages' = TheStages
               /\ frameCount' = frameCount + 1
               /\ m_state'.position # m_state.position ]_vars

\* a frame skipped in mid-flight: the second update comes with dt > 1.0
\* after a first one that integrated, with deflected controls
C1_SkippedFrame ==
    /\ lastCall.op = "update"
    /\ lastCall.dt > 1000
    /\ steps = 2
    /\ flown
    /\ m_controls.elevator # 0

\* C2: position.y >= 2.0 in every reachable state (after construction,
\* initialize with any position, reset, every update).
C2_AboveGroundFloor == m_state.position.y >= 2000

\* C3: once a step has been integrated, state.speed >= 20.0 after every
\* update, for any throttle and any controls.
C3_MinimumSpeed ==
    (lastCall.op = "update" /\ frameCount >= 1) => m_state.speed >= 20000

\* a step whose integrated speed fell under the floor: reverse throttle,
\* speed exactly 20.0 afterwards
C3_FloorApplied ==
    /\ ValidStep
    /\ m_controls.throttle < 0
    /\ m_state.speed = 20000
    /\ integrated.speed = 20000

\* C4: after every update that performs a step, state.speed is the magnitude
\* of the world-frame velocity, also when the ground clamp was applied.
C4_SpeedIsWorldVelocityMagnitude ==
    ValidStep => Near(m_state.speed, v3_length(WorldVelocity(m_state)))

\* C5: after every update that performs a step, |pitchRate| <= 4,
\* |yawRate| <= 3 and |rollRate| <= 6, for any control inputs.
C5_RatesBounded ==
    ValidStep => /\ Abs(m_state.pitchRate) <= 4000
                 /\ Abs(m_state.yawRate) <= 3000
                 /\ Abs(m_state.rollRate) <= 6000

\* out-of-range deflections drive all three rates into their clamps
C5_AllClampsHit ==
    /\ ValidStep
    /\ m_controls.elevator < -1000
    /\ m_state.pitchRate = 4000
    /\ m_state.yawRate = 3000
    /\ m_state.rollRate = -6000

\* pitch, yaw and roll of a state
Angles(st) == {st.pitch, st.yaw, st.roll}

C7_AnglesAlwaysNormalized ==
    \A a \in Angles(m_state) : -PI < a /\ a <= PI

\* C8: whenever an update clamps position.y to 2.0 while the aircraft is
\* descending, its world-frame vertical velocity is zero after the update,
\* for every orientation.
C8_VerticalVelocityZeroed ==
    (/\ ValidStep
     /\ integrated.position.y < 2000
     /\ WorldVelocity(integrated).y < 0)
        => Near(WorldVelocity(m_state).y, 0)

\* C9: every update with valid dt computes force and torque once from the
\* state before the step, integrates once with that torque for the angular
\* half and that force for the linear half, and applies the ground
\* constraint last.
C9_ComputeOnceIntegrateOnceThenClamp ==
    [][ (lastCall'.op = "update" /\ lastCall'.dt > 0 /\ lastCall'.dt <= 1000)
          => LET ft == computeForces(m_state, m_controls, m_params)
                 turned == integrateAngular(m_state, m_params, lastCall'.dt, ft.torque)
             IN  /\ stages' = TheStages
                 /\ frameCount' = frameCount + 1
                 /\ integrated' = integrateLinear(turned, m_params, lastCall'.dt, ft.force)
                 /\ m_state' = groundConstraint(integrated') ]_vars

\* a step under deflected controls that turned the aircraft, so that forces
\* recomputed after the angular half would differ, and that ended in the
\* ground constraint
C9_TurningStepOnGround ==
    /\ ValidStep
    /\ m_controls.elevator # 0
    /\ m_state.pitch # 0
    /\ integrated.position.y < 2000
    /\ m_state.position.y = 2000

\* C10: reset() restores position and yaw of the latest initialize, zero
\* pitch, roll and rates, body velocity (0, 0, -50), speed 50 and the default
\* controls; it leaves the parameters and the remembered pose alone, and a
\* second reset() finds nothing to change.
C10_ResetRestoresSpawn ==
    [][ lastCall'.op = "reset"
          => /\ m_state' = [position |-> spawn.position,
                            pitch |-> 0, yaw |-> spawn.heading, roll |-> 0,
                            velocity |-> v3(0, 0, -50000), speed |-> 50000,
                            pitchRate |-> 0, yawRate |-> 0, rollRate |-> 0,
                            acceleration |-> v3(0, 0, 0),
                            angularAcceleration |-> v3(0, 0, 0)]
             /\ m_controls' = [elevator |-> 0, aileron |-> 0, rudder |-> 0,
                               throttle |-> 500]
             /\ UNCHANGED <<m_params, m_initialPosition, m_initialHeading, spawn>>
             /\ m_state' = reset(m_initialPosition', m_initialHeading') ]_vars

\* a reset after a flight: spawned on the ground floor at heading 20 rad,
\* at least one step integrated since, then reset
C10_ResetAfterFlight ==
    /\ lastCall.op = "reset"
    /\ flown
    /\ spawn.heading = 20000
    /\ spawn.position = v3(10000, 2000, -10000)

\* C11 as claimed: immediately after initialize(position, heading) the
\* throttle is 0.7 with elevator = aileron = rudder = 0, position is the
\* given position, yaw the given heading and speed 50 m/s.
C11_InitializeSetsCruiseThrottle ==
    lastCall.op = "initialize"
        => /\ m_controls = [elevator |-> 0, aileron |-> 0, rudder |-> 0, throttle |-> 700]
           /\ m_state.position = spawn.position
           /\ m_state.yaw = spawn.heading
           /\ m_state.speed = 50000

\* C17: setControlInputs stores its argument verbatim, also when it lies
\* outside [-1, 1] and [0, 1], and touches nothing else of the engine;
\* update(dt), valid or not, never modifies a field of ControlInputs.
C17_ControlsStoredVerbatim ==
    [][ /\ lastCall'.op = "setControlInputs"
            => /\ m_controls' = lastCall'.inputs
               /\ UNCHANGED <<m_state, m_params, m_initialPosition, m_initialHeading>>
        /\ lastCall'.op = "update" => m_controls' = m_controls ]_vars

\* out-of-range deflections and an out-of-range throttle, each still in
\* the engine after a step was integrated with it
C17_OutOfRangeSurvivesStep ==
    /\ ValidStep
    /\ flown
    /\ \/ m_controls.throttle < 0
       \/ m_controls.elevator < -1000 /\ m_controls.rudder > 1000

\* C19 as claimed: from a level state (pitch = 0, all rates 0) with
\* elevator > 0 and aileron = rudder = 0, one valid update leaves
\* pitchRate > 0 and pitch > 0 (nose up).  The first update of a
\* behaviour starts from the level state reset() builds.
C19_PositiveElevatorPitchesUp ==
    (/\ ValidStep
     /\ steps = 1
     /\ m_controls.elevator > 0
     /\ m_controls.aileron = 0
     /\ m_controls.rudder = 0)
        => m_state.pitchRate > 0 /\ m_state.pitch > 0

\* C12 as claimed: right after FlightDynamicsBehavior::initialize at heading
\* h the world-frame velocity bodyToWorld(state.velocity) has magnitude 50
\* and points along (-sin h, 0, -cos h), for zero and non-zero h alike.
C12_SpawnVelocityAlongHeading ==
    lastCall.op = "behaviorInitialize"
        => /\ Near(v3_length(WorldVelocity(m_state)), 50000)
           /\ Near(WorldVelocity(m_state).x, tmul(-50000, Sin(spawn.heading)))
           /\ Near(WorldVelocity(m_state).y, 0)
           /\ Near(WorldVelocity(m_state).z, tmul(-50000, Cos(spawn.heading)))

\* elevator, aileron, rudder in [-1, 1] and throttle in [0, 1]
InRange(controls) ==
    /\ -1000 <= controls.elevator /\ controls.elevator <= 1000
    /\ -1000 <= controls.aileron /\ controls.aileron <= 1000
    /\ -1000 <= controls.rudder /\ controls.rudder <= 1000
    /\ 0 <= controls.throttle /\ controls.throttle <= 1000

\* C16: under any sequence of key presses, key releases and frames, in each
\* of the applications, the ControlInputs every engine update reads (and
\* the engine's ControlInputs at any time) have elevator, aileron, rudder in
\* [-1, 1] and throttle in [0, 1]; with both keys of an axis down the input
\* pass of a frame leaves that axis at 0.
C16_ControlsInRange ==
    /\ InRange(seen)
    /\ InRange(m_controls)
    /\ (lastCall.op = "frame" /\ m_upPressed /\ m_downPressed)
          => gathered.elevator = 0 /\ m_controls.elevator = 0

\* a second frame of app_v3 with both pitch keys down, whose update read the
\* cancelled elevator and a throttle stepped up to its limit
C16_OpposingKeysAtFullThrottle ==
    /\ loop = "app_v3"
    /\ lastCall.op = "frame"
    /\ steps = 2
    /\ m_upPressed /\ m_downPressed
    /\ events = 2
    /\ seen.elevator = 0
    /\ seen.throttle = 1000

\* C18 as claimed: in every frame of each application the input pass writes
\* the key state into the ControlInputs before the engine update of that
\* frame, so the update reads the controls gathered in the same frame.
C18_UpdateReadsControlsOfItsFrame ==
    lastCall.op = "frame" => seen = gathered

\* C13: two engines constructed alike that have received the same sequence
\* of calls (the same timesteps and controls) have the same AircraftState,
\* whatever the function-local statics frameCount and logged held when each
\* call was made.
C13_SameCallsSameState ==
    calls.A = calls.B => membersOf("A").m_state = membersOf("B").m_state

\* both engines were given a full pull and then one frame; the statics
\* differed between the two updates, and both aircraft moved alike
C13_TwoFlightsAlike ==
    /\ Len(calls.A) = 2
    /\ calls.A = calls.B
    /\ calls.A[1].op = "setControlInputs"
    /\ calls.A[2].op = "update" /\ sanityCheck(calls.A[2].dt)
    /\ frameCount = 2
    /\ m_state.position # constructed.m_state.position

\* C14: under every interleaving of calls on two engines of one process,
\* the AircraftState, ControlInputs and AircraftParams of each engine are
\* those of an engine that received its own calls alone: nothing done to
\* the other engine shows.
C14_EnginesIndependent ==
    /\ membersOf("B") = replay(constructed, calls.B)
    /\ membersOf("A") = replay(constructed, calls.A)

\* engine A was given a full pull and flown; engine B was re-initialized and
\* flown, and is elsewhere
C14_TwoDifferentFlights ==
    /\ Len(calls.A) = 2
    /\ Len(calls.B) = 2
    /\ calls.A[1].op = "setControlInputs"
    /\ calls.B[1].op = "initialize"
    /\ frameCount = 2
    /\ twin.m_state.position # m_state.position
    /\ twin.m_controls # m_controls

\* sine and cosine of the angle are both exact: 0, 1 or -1
ExactTrig(a) ==
    /\ Sin(a) \in {0, TrigScale, -TrigScale}
    /\ Cos(a) \in {0, TrigScale, -TrigScale}

\* the two vectors agree in every component within the rounding of the
\* six rotations of a round trip
NearVec(a, b, tolerance) ==
    /\ Abs(a.x - b.x) <= tolerance
    /\ Abs(a.y - b.y) <= tolerance
    /\ Abs(a.z - b.z) <= tolerance

\* rounding allowed on a vector: 5 units and a thousandth of its length
RoundTripTolerance(v) == 5 + v3_length(v) \div 1000

\* C15: at every orientation (pitch, yaw, roll) and for every vector v,
\* worldToBody(bodyToWorld(v)) = v and bodyToWorld(worldToBody(v)) = v up to
\* rounding, exactly where all sines and cosines of the orientation are
\* exact, and each transform leaves the length of the vector as it was.
C15_TransformsAreMutualInverses ==
    /\ probe.hops % 2 = 0 /\ probe.hops > 0 =>
          /\ NearVec(probe.vec, probe.origin, RoundTripTolerance(probe.origin))
          /\ (ExactTrig(m_state.pitch) /\ ExactTrig(m_state.yaw) /\ ExactTrig(m_state.roll)
                => probe.vec = probe.origin)
    /\ probe.hops > 0 =>
          Abs(v3_length(probe.vec) - v3_length(probe.origin))
             <= RoundTripTolerance(probe.origin)

\* a vector off every axis has gone to the other frame and back at an
\* attitude that is off the axes in pitch, yaw and roll, and changed on the way
C15_RoundTripOffAxes ==
    /\ probe.hops = 2
    /\ probe.origin = v3(3000, -4000, 12000)
    /\ m_state.pitch = 500 /\ m_state.yaw = -2100 /\ m_state.roll = QuarterTurn
    /\ probe.frame = "body"
    /\ lastCall.op = "worldToBody"

\* C20: after initialize({0,100,0}, 0) with throttle 0.7 and the surfaces
\* centred, during 600 consecutive update(0.016) calls the aircraft holds
\* its altitude: position.y never comes down to the 2.0 ground floor.
C20_AltitudeHeld ==
    lastCall.op = "update" /\ m_controls = CruiseControls =>
        m_state.position.y > 2000

\* the three control surfaces are centred
SurfacesCentred(controls) ==
    controls.elevator = 0 /\ controls.aileron = 0 /\ controls.rudder = 0

\* pitch, yaw and roll of a state, in this order
Attitude(st) == <<st.pitch, st.yaw, st.roll>>

\* the three angular rates
Rates(st) == <<st.pitchRate, st.yawRate, st.rollRate>>

\* the step taken is an update with a valid timestep, made with the surfaces
\* centred and the angular rates at zero
RestingStep ==
    /\ lastCall'.op = "update"
    /\ sanityCheck(lastCall'.dt)
    /\ SurfacesCentred(m_controls)
    /\ Rates(m_state) = <<0, 0, 0>>

C22_LiftCoefficientClamped ==
    /\ liftCoeff(m_state, m_controls, m_params) >= -500
    /\ liftCoeff(m_state, m_controls, m_params) <= 1500
    /\ Abs(liftForce(m_state, m_controls, m_params).y)
          <= fmul(fmul(dynamicPressure(m_state), m_params.wingArea), 1500)
    /\ liftForce(m_state, m_controls, m_params).x = 0
    /\ liftForce(m_state, m_controls, m_params).z = 0

\* two steps flown with a thirtyfold push: the formula gives a coefficient
\* far below -0.5 and the steps used -0.5
C22_ThirtyfoldPushClamped ==
    /\ ValidStep
    /\ steps = 2
    /\ m_controls.elevator = -30000
    /\ liftCoeffUnclamped(m_state, m_controls, m_params) < -10000
    /\ liftCoeff(m_state, m_controls, m_params) = -500
    /\ liftForce(m_state, m_controls, m_params).y < 0

\* the force of magnitude drag against the unit vector of the body-frame
\* velocity of the state
dragAgainstVelocity(st, ctl, prm) ==
    v3(fmul(-fdiv(st.velocity.x, v3_length(st.velocity)), drag(st, ctl, prm)),
       fmul(-fdiv(st.velocity.y, v3_length(st.velocity)), drag(st, ctl, prm)),
       fmul(-fdiv(st.velocity.z, v3_length(st.velocity)), drag(st, ctl, prm)))

\* rounding allowed on a drag component: 5 units and a hundredth of the drag
DragTolerance(st, ctl, prm) == 5 + drag(st, ctl, prm) \div 100

\* C23: in every reachable state the drag force computed for a step is zero
\* when speed < 0.1, and otherwise has the magnitude
\* q * wingArea * dragCoeff * (1 + angleOfAttack^2 * 5) and the direction
\* opposite to the unit vector of the body-frame velocity, also in the steps
\* that follow a ground clamp or a minimum-speed adjustment.
C23_DragOpposesVelocityAtFullMagnitude ==
    IF m_state.speed < 100
    THEN dragForce(m_state, m_controls, m_params) = v3(0, 0, 0)
    ELSE v3_length(m_state.velocity) > 0
            => NearVec(dragForce(m_state, m_controls, m_params),
                       dragAgainstVelocity(m_state, m_controls, m_params),
                       DragTolerance(m_state, m_controls, m_params))

\* the state the angular half of a step from (st, ctl, prm) leaves
afterTurn(st, ctl, prm, dt) ==
    integrateAngular(st, prm, dt, computeForces(st, ctl, prm).torque)

\* the world-frame velocity a step from (st, ctl, prm) integrates, before
\* any rescale
steppedVelocityWorld(st, ctl, prm, dt) ==
    integratedVelocityWorld(afterTurn(st, ctl, prm, dt), prm, dt,
                            computeForces(st, ctl, prm).force)

\* the step taken is an update with a valid timestep whose integrated
\* world-frame speed is below 20.0
SlowStep ==
    /\ lastCall'.op = "update"
    /\ sanityCheck(lastCall'.dt)
    /\ v3_length(steppedVelocityWorld(m_state, m_controls, m_params, lastCall'.dt)) < 20000

\* the vector v stretched to the length 20.0
stretched(v) ==
    v3(fdiv(fmul(v.x, 20000), v3_length(v)),
       fdiv(fmul(v.y, 20000), v3_length(v)),
       fdiv(fmul(v.z, 20000), v3_length(v)))

\* rounding allowed on a vector stretched to 20.0: 0.02, and twice the
\* resolution of the vector it was stretched from
StretchTolerance(v) == 20 + 40000 \div v3_length(v)

\* st carries the velocity velocityWorld brought to 20.0 along its
\* direction, or velocityWorld itself where it is 0.1 or shorter
FloorApplied(st, velocityWorld) ==
    /\ st.speed = 20000
    /\ IF v3_length(velocityWorld) > 100
       THEN /\ Abs(v3_length(WorldVelocity(st)) - 20000) <= StretchTolerance(velocityWorld)
            /\ NearVec(WorldVelocity(st), stretched(velocityWorld),
                       StretchTolerance(velocityWorld))
       ELSE st.velocity = worldToBody(st, velocityWorld)

onTheFloor(st) == [st EXCEPT !.position.y = 2000]

\* st with velocity.y zeroed and the 0.95 friction applied once to
\* velocity.x and velocity.z
skidding(st) ==
    [st EXCEPT !.velocity = v3(frat(@.x, 95, 100), 0, frat(@.z, 95, 100))]

\* C25: the ground-clamp stage of an update changes nothing when the
\* integrated position.y is >= 2.0; when position.y < 2.0 and velocity.y is
\* not negative it changes position.y only, to 2.0; the 0.95 friction is
\* applied to velocity.x and velocity.z once, and only together with the
\* zeroing of a negative velocity.y; position.x and position.z are never
\* changed by the clamp.
C25_GroundClampEffect ==
    ValidStep =>
        /\ integrated.position.y >= 2000 => m_state = integrated
        /\ integrated.position.y < 2000 /\ integrated.velocity.y >= 0
              => m_state = onTheFloor(integrated)
        /\ integrated.position.y < 2000 /\ integrated.velocity.y < 0
              => m_state = skidding(onTheFloor(integrated))
        /\ m_state.position.x = integrated.position.x
        /\ m_state.position.z = integrated.position.z
        /\ m_state.velocity # integrated.velocity
              => integrated.velocity.y < 0 /\ m_state.velocity.y = 0

\* a step that ended under the floor with the body moving up along its own
\* vertical axis: the aircraft was lifted to the floor and kept its velocity
C25_LiftedWithoutFriction ==
    /\ ValidStep
    /\ integrated.position.y < 2000
    /\ integrated.velocity.y > 0
    /\ m_state.position.y = 2000
    /\ m_state.velocity = integrated.velocity
    /\ m_state.velocity.z # 0

\* C26: at every orientation (pitch, yaw, roll) and for every body vector v,
\* the rotation of getTransformMatrix() applied to v is bodyToWorld(v): the
\* renderer draws the nose where a forward body velocity moves the aircraft.
C26_RenderAgreesWithPhysics ==
    probe.frame = "render" =>
        NearVec(probe.vec, bodyToWorld(m_state, probe.origin),
                RoundTripTolerance(probe.origin))

\* the world-frame velocity of the state before the step, taken under the
\* orientation before the step, plus (world-frame force / mass) * dt
carriedVelocityWorld(st, ctl, prm, dt) ==
    advance(bodyToWorld(st, st.velocity),
            acceleration(bodyToWorld(afterTurn(st, ctl, prm, dt),
                                     computeForces(st, ctl, prm).force),
                         prm.mass),
            dt)

\* C27: in a valid update the world-frame velocity of the step, the one the
\* position moves with before any rescale or ground clamp, is the
\* world-frame velocity before the step (bodyToWorld of the stored body
\* velocity under the pre-step orientation) plus (world-frame force / mass)
\* * dt: the change of pitch, yaw or roll within the step does not change it.
C27_WorldVelocityCarriedOver ==
    [][(lastCall'.op = "update" /\ sanityCheck(lastCall'.dt)) =>
          NearVec(integrated'.position,
                  advance(m_state.position,
                          carriedVelocityWorld(m_state, m_controls, m_params, lastCall'.dt),
                          lastCall'.dt),
                  10)]_vars

\* the commands on the pitch, yaw and roll axes, in this order
Commands(controls) == <<controls.elevator, controls.rudder, controls.aileron>>

\* the step taken is an update with a valid timestep, made from zero angular
\* rates with a command on exactly one control axis
SingleAxisStep ==
    /\ lastCall'.op = "update"
    /\ sanityCheck(lastCall'.dt)
    /\ Rates(m_state) = <<0, 0, 0>>
    /\ Cardinality({i \in 1..3 : Commands(m_controls)[i] # 0}) = 1

\* the rates a step from zero rates reaches: pitch by Iyy, yaw by Izz, roll
\* by Ixx, each within its clamp
ownAxisRates(torque, I, dt) ==
    <<clamp(fmul(fdiv(torque.x, I.Iyy), dt), -4000, 4000),
      clamp(fmul(fdiv(torque.y, I.Izz), dt), -3000, 3000),
      clamp(fmul(fdiv(torque.z, I.Ixx), dt), -6000, 6000)>>

C29_ResetRespawnsLikeInitialize ==
    lastCall.op = "behaviorReset" =>
        /\ m_state.velocity =
              behaviorInitialize(spawn.position, spawn.heading).m_state.velocity
        /\ m_state.speed = behaviorInitialize(spawn.position, spawn.heading).m_state.speed
        /\ m_controls.throttle =
              behaviorInitialize(spawn.position, spawn.heading).m_controls.throttle

=============================================================================
